---- MODULE Spec2Model ----
(***************************************************************************)
(* The review session of one `flashy` code block (src/main.ts, the         *)
(* callback of registerMarkdownCodeBlockProcessor): the closure variables  *)
(* of the session, the content of mainContainer, the pending window        *)
(* timers, and one action per event handler (specification Spec); the      *)
(* parser of the block's text, parseAllCards, and the start of the session *)
(* (specifications ParseSpec and ReparseSpec); the card creation form,     *)
(* whose markup is parsed again (specification BuildSpec); initializeDeck  *)
(* and fisherYatesShuffle step by step (specifications ShuffleSpec and,    *)
(* with fairness, FairShuffleSpec); and the buttons of a multiple-choice   *)
(* card (specification ChoiceSpec).                                        *)
(***************************************************************************)
EXTENDS Integers, Sequences, FiniteSets, Bags, TLC

\* Largest deck (number of cards parseAllCards returned) that is explored.
MaxCards == 2

\* Largest number of window timers pending at once; onGraded is not explored
\* from a state in which its timers would exceed it.
MaxTimers == 2

\* Largest number of pieces (lines) of a block's text that parseAllCards is
\* applied to.
MaxLines == 3

\* Largest number of tokens of the property lines explored token by token.
MaxTokens == 2

VARIABLES
    mcBody,               \* the buttons of the multiple-choice body that is rendered
    previousFirst,        \* previousFirstCard of an initializeDeck() that is running
    cards,                \* the entries of the card creation form (this.cards)
    source,               \* the text of the code block
    blockResults,         \* history: what parseAllCards made of each block
    keydownRegistered,    \* handleKeyDown is registered for the block
    allCards,             \* the parsed deck
    cardsToRender,        \* the render order of the session
    currentCardIndex,     \* 0-based index into cardsToRender
    stats,                \* [correct, incorrect, answered]
    answeredCardIndexes,  \* the indexes graded in this session
    settings,             \* the plugin's live settings object
    view,                 \* mainContainer: "card", "blank", "summary", "error"
    hasAnswered,          \* the rendered card's widget has called onGraded
    score,                \* the score text of the summary, NoScore when not shown
    timers,               \* bag of pending window.setTimeout callbacks
    lastEvent             \* history: the handler of the session that ran last

vars == <<mcBody, previousFirst, cards, source, blockResults, keydownRegistered, allCards, cardsToRender, currentCardIndex, stats, answeredCardIndexes,
          settings, view, hasAnswered, score, timers, lastEvent>>

NoScore == -1

NoCard == 0

\* The body of a multiple-choice card, main.ts 346-386: answersToShow holds
\* isCorrect of the buttons from first to last, disabled the positions of
\* the buttons that are disabled, foundCorrectAnswers the counter of line
\* 351; clicks and graded are histories, of the buttons clicked and of the
\* arguments onGraded was called with. NoMcBody: no such body is explored.
NoMcBody ==
    [answersToShow |-> <<>>, disabled |-> {}, foundCorrectAnswers |-> 0,
     clicks |-> <<>>, graded |-> <<>>]

\* The settings the session reads. enableKeyboardNav (line 200) only decides
\* whether a key press reaches the handler at all: the key actions below are
\* the key presses that do.
SettingKeys == {"shuffleCards", "autoAdvance", "autoAdvanceIncorrect"}

SettingsValues == [SettingKeys -> BOOLEAN]

\* The decks parseAllCards can return to a session: 1..MaxCards distinct card
\* objects (an empty deck creates no session, main.ts 154-157). The session
\* tells cards apart by their identity only, so a deck of the session is the
\* sequence of the identities, and the text they were parsed from, which no
\* handler reads, is TextRead, without the history of its parsing.
Decks == { [i \in 1..n |-> i] : n \in 1..MaxCards }

TextRead == <<"...">>

----------------------------------------------------------------------------
(* fisherYatesShuffle, main.ts 160-167 *)

\* An exchange that loses the element at position a.
SwapOverwrites(arr, a, b) == [arr EXCEPT ![a] = arr[b]]

Swap(arr, a, b) == [arr EXCEPT ![a] = arr[b], ![b] = arr[a]]

\* The arrays the loop can hold after the iterations i, i-1, ..., 1 (0-based
\* i, the array position i+1 here), j drawn from 0..i by Math.random.
RECURSIVE ShuffleFrom(_, _)
ShuffleFrom(arrs, i) ==
    IF i <= 0 THEN arrs
    ELSE ShuffleFrom({ Swap(arr, i + 1, j + 1) : arr \in arrs, j \in 0..i }, i - 1)

fisherYatesShuffle(array) == ShuffleFrom({array}, Len(array) - 1)

----------------------------------------------------------------------------
(* initializeDeck, main.ts 170-189 *)

FreshStats == [correct |-> 0, incorrect |-> 0, answered |-> 0]

\* A single shuffle, whatever its first card.
ShuffledOrdersAnyFirst(previousFirstCard) == fisherYatesShuffle(allCards)

\* The orders the do-while of lines 180-182 can leave in cardsToRender.
ShuffledOrders(previousFirstCard) ==
    { order \in fisherYatesShuffle(allCards) :
        previousFirstCard = NoCard \/ order[1] # previousFirstCard }

\* The deck is shuffled whatever the setting and the number of cards.
RenderOrdersShuffled(previousFirstCard) == ShuffledOrders(previousFirstCard)

\* The orders lines 179-185 can leave in cardsToRender.
RenderOrders(previousFirstCard) ==
    IF settings.shuffleCards /\ Len(allCards) > 1
    THEN ShuffledOrders(previousFirstCard)
    ELSE {allCards}

initializeDeckKeepsAnswered ==
    /\ stats' = FreshStats
    /\ answeredCardIndexes' = answeredCardIndexes
    /\ cardsToRender' \in RenderOrders(cardsToRender[1])

initializeDeck ==
    /\ stats' = FreshStats
    /\ answeredCardIndexes' = {}
    /\ cardsToRender' \in RenderOrders(cardsToRender[1])

----------------------------------------------------------------------------
(* renderCard, main.ts 263-296, and renderSummary, main.ts 301-314 *)

InRange(index) == index \in 0..(Len(cardsToRender') - 1)

renderCard(index) ==
    /\ currentCardIndex' = index
    /\ view' = IF InRange(index) THEN "card" ELSE "blank"
    /\ hasAnswered' = FALSE
    /\ score' = NoScore

\* (x).toFixed(0) of x = correct / total * 100: the nearest integer, the
\* larger one of two equally near.
ToFixed0(correct, total) == (200 * correct + total) \div (2 * total)

renderSummary ==
    /\ view' = "summary"
    /\ hasAnswered' = FALSE
    /\ score' = IF Len(cardsToRender) > 0
                THEN ToFixed0(stats.correct, Len(cardsToRender)) ELSE 0
    /\ UNCHANGED currentCardIndex

----------------------------------------------------------------------------
(* onGraded, main.ts 234-256 *)

AdvanceTimer(p) == [kind |-> "advance", gradedAt |-> p, correct |-> 0]

SummaryTimer(c) == [kind |-> "summary", gradedAt |-> 0, correct |-> c]

AlreadyGradedNever == FALSE

AlreadyGraded == currentCardIndex \in answeredCardIndexes

ShouldAdvanceEitherFlag(isCorrect) == settings.autoAdvance \/ settings.autoAdvanceIncorrect

ShouldAdvance(isCorrect) ==
    (isCorrect /\ settings.autoAdvance) \/ (~isCorrect /\ settings.autoAdvanceIncorrect)

\* Statistics that count a grade as correct or incorrect but not as answered.
GradedStatsNotAnswered(isCorrect) ==
    [correct   |-> IF isCorrect THEN stats.correct + 1 ELSE stats.correct,
     incorrect |-> IF isCorrect THEN stats.incorrect ELSE stats.incorrect + 1,
     answered  |-> stats.answered]

GradedStats(isCorrect) ==
    [correct   |-> IF isCorrect THEN stats.correct + 1 ELSE stats.correct,
     incorrect |-> IF isCorrect THEN stats.incorrect ELSE stats.incorrect + 1,
     answered  |-> stats.answered + 1]

\* A scheduling in which the completion timer is an alternative to the
\* auto-advance timer.
ScheduledSummaryUnlessAdvance(isCorrect) ==
    IF ShouldAdvance(isCorrect) /\ currentCardIndex < Len(cardsToRender) - 1
    THEN SetToBag({AdvanceTimer(currentCardIndex)})
    ELSE IF GradedStats(isCorrect).answered = Len(cardsToRender)
         THEN SetToBag({SummaryTimer(GradedStats(isCorrect).correct)}) ELSE EmptyBag

\* Only the advance of lines 247-251 is scheduled.
ScheduledAdvanceOnly(isCorrect) ==
    IF ShouldAdvance(isCorrect) /\ currentCardIndex < Len(cardsToRender) - 1
    THEN SetToBag({AdvanceTimer(currentCardIndex)}) ELSE EmptyBag

\* The timers one call of onGraded schedules (lines 247-255).
Scheduled(isCorrect) ==
    (IF ShouldAdvance(isCorrect) /\ currentCardIndex < Len(cardsToRender) - 1
        THEN SetToBag({AdvanceTimer(currentCardIndex)}) ELSE EmptyBag)
    (+)
    (IF GradedStats(isCorrect).answered = Len(cardsToRender)
        THEN SetToBag({SummaryTimer(GradedStats(isCorrect).correct)}) ELSE EmptyBag)

onGraded(isCorrect) ==
    IF AlreadyGraded
    THEN UNCHANGED <<answeredCardIndexes, stats, timers>>
    ELSE /\ answeredCardIndexes' = answeredCardIndexes \cup {currentCardIndex}
         /\ stats' = GradedStats(isCorrect)
         /\ timers' = timers (+) Scheduled(isCorrect)

----------------------------------------------------------------------------
(* The state after the code block processor has run, main.ts 145-157 and   *)
(* 568-569: initializeDeck() with cardsToRender still undefined, then      *)
(* renderCard(0).                                                          *)

Init ==
    /\ mcBody = NoMcBody
    /\ previousFirst = NoCard
    /\ cards = <<>>
    /\ source = TextRead
    /\ blockResults = <<>>
    /\ keydownRegistered = TRUE
    /\ allCards \in Decks
    /\ settings \in SettingsValues
    /\ cardsToRender \in RenderOrders(NoCard)
    /\ stats = FreshStats
    /\ answeredCardIndexes = {}
    /\ currentCardIndex = 0
    /\ view = "card"
    /\ hasAnswered = FALSE
    /\ score = NoScore
    /\ timers = EmptyBag
    /\ lastEvent = "init"

----------------------------------------------------------------------------
(* Event handlers *)

\* A grading widget of the rendered card calls onGraded: main.ts 369-372 and
\* 379-382 (multiple choice), 400-405 (fill in the blank), 441-445 (Q&A).
\* Each widget calls it at most once per rendering.
Grade(isCorrect) ==
    /\ view = "card"
    /\ ~hasAnswered
    /\ AlreadyGraded \/ BagCardinality(timers (+) Scheduled(isCorrect)) <= MaxTimers
    /\ hasAnswered' = TRUE
    /\ onGraded(isCorrect)
    /\ lastEvent' = IF AlreadyGraded THEN "gradeIgnored" ELSE "grade"
    /\ UNCHANGED <<mcBody, previousFirst, cards, source, blockResults, keydownRegistered, allCards, cardsToRender, currentCardIndex, settings, view, score>>

\* handleKeyDown, main.ts 199-218, for a key press that passes the tests of
\* lines 200-205 (keyboard navigation on, the block focused or hovered): the
\* previous-card key.
KeyPrevious ==
    /\ keydownRegistered
    /\ UNCHANGED <<mcBody, previousFirst, cards, source, blockResults, keydownRegistered, allCards, cardsToRender, stats, answeredCardIndexes, settings, timers>>
    /\ IF currentCardIndex > 0
       THEN renderCard(currentCardIndex - 1)
       ELSE UNCHANGED <<currentCardIndex, view, hasAnswered, score>>
    /\ lastEvent' = "navigate"

\* A next-card key that forgets the gradings of the session.
KeyNextForgetsAnswered ==
    /\ keydownRegistered
    /\ UNCHANGED <<mcBody, previousFirst, cards, source, blockResults, keydownRegistered, allCards, cardsToRender, stats, settings, timers>>
    /\ answeredCardIndexes' = {}
    /\ IF currentCardIndex < Len(cardsToRender) - 1
       THEN renderCard(currentCardIndex + 1)
       ELSE UNCHANGED <<currentCardIndex, view, hasAnswered, score>>
    /\ lastEvent' = "navigate"

\* A next-card key that tests the position against the length, not against
\* the last index.
KeyNextPastEnd ==
    /\ keydownRegistered
    /\ UNCHANGED <<mcBody, previousFirst, cards, source, blockResults, keydownRegistered, allCards, cardsToRender, stats, answeredCardIndexes, settings, timers>>
    /\ IF currentCardIndex < Len(cardsToRender)
       THEN renderCard(currentCardIndex + 1)
       ELSE UNCHANGED <<currentCardIndex, view, hasAnswered, score>>
    /\ lastEvent' = "navigate"

\* handleKeyDown, the next-card key.
KeyNext ==
    /\ keydownRegistered
    /\ UNCHANGED <<mcBody, previousFirst, cards, source, blockResults, keydownRegistered, allCards, cardsToRender, stats, answeredCardIndexes, settings, timers>>
    /\ IF currentCardIndex < Len(cardsToRender) - 1
       THEN renderCard(currentCardIndex + 1)
       ELSE UNCHANGED <<currentCardIndex, view, hasAnswered, score>>
    /\ lastEvent' = "navigate"

\* handleKeyDown, the reset-session key.
KeyReset ==
    /\ keydownRegistered
    /\ initializeDeck
    /\ renderCard(0)
    /\ lastEvent' = "reset"
    /\ UNCHANGED <<mcBody, previousFirst, cards, source, blockResults, keydownRegistered, allCards, settings, timers>>

\* The previous button of renderControls, main.ts 467-471.
ClickPrevious ==
    /\ UNCHANGED <<mcBody, previousFirst, cards, source, blockResults, keydownRegistered, allCards, cardsToRender, stats, answeredCardIndexes, settings, timers>>
    /\ view = "card"
    /\ currentCardIndex # 0
    /\ renderCard(currentCardIndex - 1)
    /\ lastEvent' = "navigate"

\* The next button of renderControls, main.ts 478-482.
ClickNext ==
    /\ UNCHANGED <<mcBody, previousFirst, cards, source, blockResults, keydownRegistered, allCards, cardsToRender, stats, answeredCardIndexes, settings, timers>>
    /\ view = "card"
    /\ ~(currentCardIndex >= Len(cardsToRender) - 1)
    /\ renderCard(currentCardIndex + 1)
    /\ lastEvent' = "navigate"

\* The reset button of renderHeader, main.ts 331-337.
ClickReset ==
    /\ view = "card"
    /\ initializeDeck
    /\ renderCard(0)
    /\ lastEvent' = "reset"
    /\ UNCHANGED <<mcBody, previousFirst, cards, source, blockResults, keydownRegistered, allCards, settings, timers>>

\* The "Review again" button of renderSummary, main.ts 309-313.
ClickReviewAgain ==
    /\ view = "summary"
    /\ initializeDeck
    /\ renderCard(0)
    /\ lastEvent' = "reviewAgain"
    /\ UNCHANGED <<mcBody, previousFirst, cards, source, blockResults, keydownRegistered, allCards, settings, timers>>

\* An advance callback that clears every pending timer.
FireAdvanceClearsTimers(t) ==
    /\ UNCHANGED <<mcBody, previousFirst, cards, source, blockResults, keydownRegistered, allCards, cardsToRender, stats, answeredCardIndexes, settings>>
    /\ BagIn(t, timers)
    /\ t.kind = "advance"
    /\ timers' = EmptyBag
    /\ renderCard(currentCardIndex + 1)
    /\ lastEvent' = "fireAdvance"

\* The auto-advance callback of onGraded fires, main.ts 248-250: it reads
\* currentCardIndex when it runs.
FireAdvance(t) ==
    /\ UNCHANGED <<mcBody, previousFirst, cards, source, blockResults, keydownRegistered, allCards, cardsToRender, stats, answeredCardIndexes, settings>>
    /\ BagIn(t, timers)
    /\ t.kind = "advance"
    /\ timers' = timers (-) SetToBag({t})
    /\ renderCard(currentCardIndex + 1)
    /\ lastEvent' = "fireAdvance"

\* The completion callback of onGraded fires, main.ts 254.
FireSummary(t) ==
    /\ UNCHANGED <<mcBody, previousFirst, cards, source, blockResults, keydownRegistered, allCards, cardsToRender, stats, answeredCardIndexes, settings>>
    /\ BagIn(t, timers)
    /\ t.kind = "summary"
    /\ timers' = timers (-) SetToBag({t})
    /\ renderSummary
    /\ lastEvent' = "fireSummary"

\* A toggle of the settings tab writes the live settings object,
\* main.ts 821-822, 837-838, 845-846.
ToggleSetting(key) ==
    /\ settings' = [settings EXCEPT ![key] = ~settings[key]]
    /\ UNCHANGED <<mcBody, previousFirst, cards, source, blockResults, keydownRegistered, allCards, cardsToRender, currentCardIndex, stats, answeredCardIndexes,
                   view, hasAnswered, score, timers, lastEvent>>

Next ==
    \/ \E isCorrect \in BOOLEAN : Grade(isCorrect)
    \/ KeyPrevious
    \/ KeyNext
    \/ KeyReset
    \/ ClickPrevious
    \/ ClickNext
    \/ ClickReset
    \/ ClickReviewAgain
    \/ \E t \in BagToSet(timers) : FireAdvance(t)
    \/ \E t \in BagToSet(timers) : FireSummary(t)
    \/ \E key \in SettingKeys : ToggleSetting(key)

Spec == Init /\ [][Next]_vars

----------------------------------------------------------------------------
(* Strings. A string is the sequence of its characters, each a string of   *)
(* one character; the operators below are the methods of String that      *)
(* parseAllCards calls, main.ts 489-566.                                   *)

\* The value of a property or field that was never assigned. It is no
\* string: its only element is not a character.
Undefined == <<"undefined">>

\* The white space String.prototype.trim and \s know, of the characters
\* that occur in the texts explored.
Whitespace == {" ", "\n"}

IsBlank(s) == \A i \in 1..Len(s) : s[i] \in Whitespace

trim(s) ==
    IF IsBlank(s) THEN <<>>
    ELSE LET first == CHOOSE i \in 1..Len(s) :
                         s[i] \notin Whitespace /\ \A k \in 1..(i - 1) : s[k] \in Whitespace
             last  == CHOOSE i \in 1..Len(s) :
                         s[i] \notin Whitespace /\ \A k \in (i + 1)..Len(s) : s[k] \in Whitespace
         IN  SubSeq(s, first, last)

startsWith(s, prefix) == Len(s) >= Len(prefix) /\ SubSeq(s, 1, Len(prefix)) = prefix

endsWith(s, suffix) ==
    Len(s) >= Len(suffix) /\ SubSeq(s, Len(s) - Len(suffix) + 1, Len(s)) = suffix

\* s.substring(start), start counted from 0.
substring(s, start) == SubSeq(s, start + 1, Len(s))

\* The positions of s at which the text part begins.
Occurrences(s, part) ==
    { i \in 1..Len(s) : i + Len(part) - 1 <= Len(s) /\ SubSeq(s, i, i + Len(part) - 1) = part }

Min(S) == CHOOSE n \in S : \A m \in S : n <= m

Max(S) == CHOOSE n \in S : \A m \in S : n >= m

\* s.split(separator) for a non-empty separator text: also the split on the
\* expression /\n---\n/, which matches that one text only.
RECURSIVE split(_, _)
split(s, separator) ==
    IF Occurrences(s, separator) = {} THEN <<s>>
    ELSE LET i == Min(Occurrences(s, separator))
         IN  <<SubSeq(s, 1, i - 1)>> \o split(SubSeq(s, i + Len(separator), Len(s)), separator)

\* s.split(/\s+/): the separators are the maximal runs of white space.
RECURSIVE splitWhitespace(_)
splitWhitespace(s) ==
    IF \A i \in 1..Len(s) : s[i] \notin Whitespace THEN <<s>>
    ELSE LET i == Min({ k \in 1..Len(s) : s[k] \in Whitespace })
             j == Max({ k \in i..Len(s) : \A m \in i..k : s[m] \in Whitespace })
         IN  <<SubSeq(s, 1, i - 1)>> \o splitWhitespace(SubSeq(s, j + 1, Len(s)))

RECURSIVE join(_, _)
join(lines, separator) ==
    IF Len(lines) = 0 THEN <<>>
    ELSE IF Len(lines) = 1 THEN lines[1]
    ELSE lines[1] \o separator \o join(Tail(lines), separator)

----------------------------------------------------------------------------
(* The property lists of parseAllCards, main.ts 491-503 and 511-522 *)

NoProperties == [bg |-> Undefined, color |-> Undefined]

\* const [key, value] = prop.split('=')
KeyOf(prop) == split(prop, <<"=">>)[1]

ValueOf(prop) ==
    LET parts == split(prop, <<"=">>) IN IF Len(parts) >= 2 THEN parts[2] ELSE Undefined

\* A value that is defined, the empty string too.
Defined(value) == value # Undefined

\* A value that is defined and not the empty string.
Truthy(value) == value # Undefined /\ value # <<>>

\* The body of the forEach of lines 497-501 and 515-519.
SetProperty(properties, prop) ==
    [bg    |-> IF KeyOf(prop) = <<"b", "g">> /\ Truthy(ValueOf(prop))
               THEN ValueOf(prop) ELSE properties.bg,
     color |-> IF KeyOf(prop) = <<"c", "o", "l", "o", "r">> /\ Truthy(ValueOf(prop))
               THEN ValueOf(prop) ELSE properties.color]

RECURSIVE SetProperties(_, _)
SetProperties(properties, props) ==
    IF Len(props) = 0 THEN properties
    ELSE SetProperties(SetProperty(properties, Head(props)), Tail(props))

\* The properties a property line assigns.
PropertiesOf(propLine) == SetProperties(NoProperties, splitWhitespace(trim(propLine)))

\* content.match(/^\[\[(.*?)]]\n?/): the text must begin with [[ and the
\* first ]] after it must be on the same line; group 1 is the text between
\* them and the match takes one newline after ]] when there is one.
GlobalPropCloses(content) == { j \in Occurrences(content, <<"]", "]">>) : j >= 3 }

HasGlobalPropMatch(content) ==
    /\ startsWith(content, <<"[", "[">>)
    /\ GlobalPropCloses(content) # {}
    /\ \A k \in 3..(Min(GlobalPropCloses(content)) - 1) : content[k] # "\n"

GlobalPropGroup(content) == SubSeq(content, 3, Min(GlobalPropCloses(content)) - 1)

GlobalPropMatchLength(content) ==
    LET close == Min(GlobalPropCloses(content))
    IN  IF close + 2 <= Len(content) /\ content[close + 2] = "\n" THEN close + 2 ELSE close + 1

globalProperties(content) ==
    IF HasGlobalPropMatch(content) THEN PropertiesOf(GlobalPropGroup(content)) ELSE NoProperties

\* The content left for the card blocks, line 502.
ContentAfterGlobalProperties(content) ==
    IF HasGlobalPropMatch(content)
    THEN substring(content, GlobalPropMatchLength(content)) ELSE content

----------------------------------------------------------------------------
(* The card blocks of parseAllCards, main.ts 505-565 *)

\* What the callback of cardBlocks.map returns for a block without a card.
Null == [type |-> "null"]

TypeQA == "qa"

TypeFITB == "fill-in-the-blank"

TypeMC == "multiple-choice"

\* A Flashcard before its colours are assigned; a field a card type does not
\* have reads as Undefined.
Flashcard(type, question, questionPartTwo, answer, answers) ==
    [type |-> type, question |-> question, questionPartTwo |-> questionPartTwo,
     answer |-> answer, answers |-> answers,
     customBackgroundColor |-> Undefined, customTextColor |-> Undefined]

\* b || a
EitherLatter(a, b) == IF Truthy(b) THEN b ELSE a

\* a || b
Either(a, b) == IF Truthy(a) THEN a ELSE b

\* cardBlocks, line 505.
cardBlocks(text) ==
    split(ContentAfterGlobalProperties(trim(text)), <<"\n", "-", "-", "-", "\n">>)

\* lines, line 508, as the filter leaves it.
BlockLines(block) == SelectSeq(split(trim(block), <<"\n">>), LAMBDA line : ~IsBlank(line))

\* The test of line 512.
HasCardPropertyLine(lines) ==
    /\ Len(lines) > 0
    /\ startsWith(lines[1], <<"[">>)
    /\ endsWith(lines[1], <<"]">>)

\* lines.shift()?.slice(1, -1) and the properties read from it, lines 513-521.
cardProperties(lines) ==
    IF HasCardPropertyLine(lines) /\ SubSeq(lines[1], 2, Len(lines[1]) - 1) # <<>>
    THEN PropertiesOf(SubSeq(lines[1], 2, Len(lines[1]) - 1))
    ELSE NoProperties

\* lines after the shift of line 513.
CardLines(lines) == IF HasCardPropertyLine(lines) THEN Tail(lines) ELSE lines

IsQaSeparator(line) == startsWith(trim(line), <<"=", "=", "=">>)

\* The index of the last === line instead of the first.
qaSeparatorIndexLast(lines) ==
    IF \A i \in 1..Len(lines) : ~IsQaSeparator(lines[i]) THEN -1
    ELSE Max({ i \in 1..Len(lines) : IsQaSeparator(lines[i]) }) - 1

\* lines.findIndex(...), line 528: an index counted from 0, or -1.
qaSeparatorIndex(lines) ==
    IF \A i \in 1..Len(lines) : ~IsQaSeparator(lines[i]) THEN -1
    ELSE Min({ i \in 1..Len(lines) : IsQaSeparator(lines[i]) }) - 1

\* Lines 530-535.
QACard(lines) ==
    LET index    == qaSeparatorIndex(lines)
        question == trim(join(SubSeq(lines, 1, index), <<"\n">>))
        answer   == trim(substring(trim(lines[index + 1]), 3))
    IN  IF question # <<>> /\ answer # <<>>
        THEN Flashcard(TypeQA, question, Undefined, answer, Undefined)
        ELSE Null

\* questionLine.match(/(.*){{(.*)}}(.*)/), line 538. Group 1 is greedy: it
\* ends before the last {{ that has a }} after it; group 2 is greedy: it ends
\* before the last }} of the line.
FitbOpens(line) ==
    { i \in Occurrences(line, <<"{", "{">>) :
        \E j \in Occurrences(line, <<"}", "}">>) : j >= i + 2 }

FitbOpenFirst(line) == Min(FitbOpens(line))

FitbOpen(line) == Max(FitbOpens(line))

FitbClose(line) == Max(Occurrences(line, <<"}", "}">>))

fitbMatch(line) ==
    LET open  == FitbOpen(line)
        close == FitbClose(line)
    IN  IF FitbOpens(line) = {} THEN Null
        ELSE [type |-> "match",
              q1     |-> SubSeq(line, 1, open - 1),
              answer |-> SubSeq(line, open + 2, close - 1),
              q2     |-> SubSeq(line, close + 2, Len(line))]

\* The test of line 539: fitbMatch && fitbMatch[2].
IsFitb(line) == LET m == fitbMatch(line) IN m # Null /\ m.answer # <<>>

\* Lines 540-544.
FillInTheBlankCard(line) ==
    LET m == fitbMatch(line)
    IN  Flashcard(TypeFITB, trim(m.q1),
                  IF trim(m.q2) # <<>> THEN trim(m.q2) ELSE Undefined,
                  trim(m.answer), Undefined)

\* A choice whose text keeps the = of a correct line.
ChoiceKeepsMarker(line) ==
    [text |-> trim(line), isCorrect |-> startsWith(trim(line), <<"=">>)]

\* One element of answers, lines 546-549.
Choice(line) ==
    [text      |-> IF startsWith(trim(line), <<"=">>)
                   THEN trim(substring(trim(line), 1)) ELSE trim(line),
     isCorrect |-> startsWith(trim(line), <<"=">>)]

\* A multiple-choice grammar that rejects a single answer line.
MultipleChoiceCardOfTwo(lines) ==
    LET answers == [k \in 1..(Len(lines) - 1) |-> Choice(lines[k + 1])]
    IN  IF Len(answers) >= 2 /\ \E k \in 1..Len(answers) : answers[k].isCorrect
        THEN Flashcard(TypeMC, trim(lines[1]), Undefined, Undefined, answers)
        ELSE Null

\* A multiple-choice grammar that does not ask for a correct choice.
MultipleChoiceCardOfAny(lines) ==
    LET answers == [k \in 1..(Len(lines) - 1) |-> Choice(lines[k + 1])]
    IN  Flashcard(TypeMC, trim(lines[1]), Undefined, Undefined, answers)

\* Lines 546-554.
MultipleChoiceCard(lines) ==
    LET answers == [k \in 1..(Len(lines) - 1) |-> Choice(lines[k + 1])]
    IN  IF \E k \in 1..Len(answers) : answers[k].isCorrect
        THEN Flashcard(TypeMC, trim(lines[1]), Undefined, Undefined, answers)
        ELSE Null

\* A resolver that tries the multiple-choice grammar before the
\* fill-in-the-blank one.
CardOfLinesMcFirst(lines) ==
    IF qaSeparatorIndex(lines) > -1 THEN QACard(lines)
    ELSE IF Len(lines) > 1 /\ MultipleChoiceCard(lines) # Null THEN MultipleChoiceCard(lines)
    ELSE IF IsFitb(lines[1]) THEN FillInTheBlankCard(lines[1])
    ELSE Null

\* A resolver that tries the fill-in-the-blank grammar before the === line.
CardOfLinesFitbFirst(lines) ==
    IF IsFitb(lines[1]) THEN FillInTheBlankCard(lines[1])
    ELSE IF qaSeparatorIndex(lines) > -1 THEN QACard(lines)
    ELSE IF Len(lines) > 1 THEN MultipleChoiceCard(lines)
    ELSE Null

\* The card of lines 526-556, lines being the lines left after line 513.
CardOfLines(lines) ==
    IF qaSeparatorIndex(lines) > -1 THEN QACard(lines)
    ELSE IF IsFitb(lines[1]) THEN FillInTheBlankCard(lines[1])
    ELSE IF Len(lines) > 1 THEN MultipleChoiceCard(lines)
    ELSE Null

\* The callback of cardBlocks.map, lines 507-564.
ParseBlock(block, globalProps) ==
    LET lines == BlockLines(block)
        card  == CardOfLines(CardLines(lines))
        props == cardProperties(lines)
    IN  IF Len(lines) = 0 THEN Null
        ELSE IF Len(CardLines(lines)) = 0 THEN Null
        ELSE IF card = Null THEN Null
        ELSE [card EXCEPT !.customBackgroundColor = Either(props.bg, globalProps.bg),
                          !.customTextColor = Either(props.color, globalProps.color)]

\* The array of the map of line 507, one element for each block: the value
\* the callback returned and, with it, the block it was called with, the
\* card properties it read and the lines it had at line 526.
MappedBlocks(text) ==
    LET blocks == cardBlocks(text)
        props  == globalProperties(trim(text))
    IN  [i \in 1..Len(blocks) |->
            [block      |-> blocks[i],
             properties |-> cardProperties(BlockLines(blocks[i])),
             lines      |-> CardLines(BlockLines(blocks[i])),
             card       |-> ParseBlock(blocks[i], props)]]

\* The cards of the blocks without the filter of line 565.
parseAllCardsKeepsNull(text) ==
    LET mapped == MappedBlocks(text)
    IN  [i \in 1..Len(mapped) |-> mapped[i].card]

\* A deck that depends on the shuffle setting.
parseAllCardsBySetting(text) ==
    IF settings.shuffleCards THEN <<>>
    ELSE SelectSeq(parseAllCardsKeepsNull(text), LAMBDA card : card # Null)

\* The filter of line 565.
parseAllCards(text) ==
    LET mapped == MappedBlocks(text)
    IN  SelectSeq([i \in 1..Len(mapped) |-> mapped[i].card], LAMBDA card : card # Null)

----------------------------------------------------------------------------
(* The texts explored: at most MaxLines pieces, each a line of SourceLines  *)
(* or the pair of adjacent delimiter lines; and a card under a property    *)
(* line of at most MaxTokens tokens.                                       *)

SourceLines ==
    { <<"a">>,                                            \* a
      <<"=", "a">>,                                       \* =a
      <<" ", "=", "b", " ">>,                             \* " =b "
      <<"=", "=", "=", "a">>,                             \* ===a
      <<" ", "=", "=", "=", " ">>,                        \* " === "
      <<"a", "{", "{", "b", "}", "}", "a">>,              \* a{{b}}a
      <<"{", "{", "a", "}", "}", "b", "}", "}">>,         \* {{a}}b}}
      <<"a", "{", "{", "b", "{", "{", "a", "}", "}">>,    \* a{{b{{a}}
      <<"{", "{", " ", "}", "}">>,                        \* {{ }}
      <<"{", "{", "a", "}", "}", "{", "{", "}", "}">>,    \* {{a}}{{}}
      <<" ">>,                                            \* a blank line
      <<"-", "-", "-">>,                                  \* ---
      <<"[", "b", "g", "=", "a", "]">>,                   \* [bg=a]
      <<"[", "[", "b", "g", "=", "b", " ", "c", "o", "l", "o", "r", "=", "b", "]", "]">> }
                                                          \* [[bg=b color=b]]

\* Two delimiter lines with nothing between them.
AdjacentDelimiters == <<"-", "-", "-", "\n", "-", "-", "-">>

SourcePieces == SourceLines \cup {AdjacentDelimiters}

LineSources ==
    { join(pieces, <<"\n">>) :
        pieces \in UNION { [1..n -> SourcePieces] : n \in 0..MaxLines } }

\* The tokens of a property line: bg=a, color=b, a token with an empty
\* value, a token without =, a token with another key.
PropertyTokens ==
    { <<"b", "g", "=", "a">>,
      <<"c", "o", "l", "o", "r", "=", "b">>,
      <<"c", "o", "l", "o", "r", "=">>,
      <<"b", "g">>,
      <<"x", "=", "a">> }

TokenLists == UNION { [1..n -> PropertyTokens] : n \in 0..MaxTokens }

\* A fill-in-the-blank card under a block-scope property line, and one
\* under a card-scope property line whose tokens stand in white space.
PropertySources ==
    { <<"[", "[">> \o join(tokens, <<" ">>) \o <<"]", "]", "\n">>
          \o <<"a", "{", "{", "b", "}", "}", "a">> : tokens \in TokenLists }
    \cup
    { <<"[", " ">> \o join(tokens, <<" ", " ">>) \o <<" ", "]", "\n">>
          \o <<"a", "{", "{", "b", "}", "}", "a">> : tokens \in TokenLists }

Sources == LineSources \cup PropertySources

\* The code block processor has been called with a text and parseAllCards
\* has not run yet (main.ts 145-151): the variables of the closure are
\* declared and not assigned, the element of the block is empty.
ParseInit ==
    /\ mcBody = NoMcBody
    /\ previousFirst = NoCard
    /\ cards = <<>>
    /\ source \in Sources
    /\ blockResults = <<>>
    /\ keydownRegistered = FALSE
    /\ allCards = Undefined
    /\ cardsToRender = Undefined
    /\ currentCardIndex = Undefined
    /\ stats = Undefined
    /\ answeredCardIndexes = Undefined
    /\ settings = [key \in SettingKeys |-> FALSE]
    /\ view = "blank"
    /\ hasAnswered = FALSE
    /\ score = NoScore
    /\ timers = EmptyBag
    /\ lastEvent = "called"

\* const allCards = parseAllCards(source), main.ts 152.
ParseAllCards ==
    /\ lastEvent = "called"
    /\ allCards' = parseAllCards(source)
    /\ blockResults' = MappedBlocks(source)
    /\ lastEvent' = "parseAllCards"
    /\ UNCHANGED <<mcBody, previousFirst, cards, source, keydownRegistered, cardsToRender, currentCardIndex, stats,
                   answeredCardIndexes, settings, view, hasAnswered, score, timers>>

\* An empty deck that is taken for a deck with cards.
ReportEmptyDeckAndStart ==
    /\ lastEvent = "parseAllCards"
    /\ Len(allCards) = 0
    /\ stats' = FreshStats
    /\ answeredCardIndexes' = {}
    /\ cardsToRender' = allCards
    /\ keydownRegistered' = TRUE
    /\ renderCard(0)
    /\ lastEvent' = "init"
    /\ UNCHANGED <<mcBody, previousFirst, cards, source, blockResults, allCards, settings, timers>>

\* The deck is empty, main.ts 154-157: the message is put into the element
\* of the block and the callback returns.
ReportEmptyDeck ==
    /\ lastEvent = "parseAllCards"
    /\ Len(allCards) = 0
    /\ view' = "error"
    /\ lastEvent' = "emptyDeck"
    /\ UNCHANGED <<mcBody, previousFirst, cards, source, blockResults, keydownRegistered, allCards, cardsToRender,
                   currentCardIndex, stats, answeredCardIndexes, settings, hasAnswered,
                   score, timers>>

\* The deck has cards, main.ts 159-228 and 568-569: the first
\* initializeDeck(), the registration of handleKeyDown, renderCard(0).
StartSession ==
    /\ lastEvent = "parseAllCards"
    /\ Len(allCards) # 0
    /\ stats' = FreshStats
    /\ answeredCardIndexes' = {}
    /\ cardsToRender' \in RenderOrders(NoCard)
    /\ keydownRegistered' = TRUE
    /\ renderCard(0)
    /\ lastEvent' = "init"
    /\ UNCHANGED <<mcBody, previousFirst, cards, source, blockResults, allCards, settings, timers>>

ParseNext ==
    \/ ParseAllCards
    \/ ReportEmptyDeck
    \/ StartSession

ParseSpec == ParseInit /\ [][ParseNext]_vars

----------------------------------------------------------------------------
(* The card creator, FlashcardCreatorModal, main.ts 597-781 *)

\* getEmptyCardData() with the card type chosen, main.ts 621-632.
EmptyCardData(cardType) ==
    [cardType |-> cardType, question |-> <<>>, correctAnswers |-> <<>>,
     incorrectAnswers |-> <<>>, fitbText |-> <<>>, qaAnswer |-> <<>>,
     bgColor |-> <<>>, textColor |-> <<>>]

\* props of one entry, lines 757-759.
PropsOf(cardData) ==
    (IF cardData.bgColor # <<>> THEN <<<<"b", "g", "=">> \o cardData.bgColor>> ELSE <<>>)
    \o (IF cardData.textColor # <<>>
        THEN <<<<"c", "o", "l", "o", "r", "=">> \o cardData.textColor>> ELSE <<>>)

\* The lines of the choices, lines 767-769: `=` is put before every correct
\* line before the empty lines are left out.
ChoiceLines(cardData) ==
    LET correctLines   == split(trim(cardData.correctAnswers), <<"\n">>)
        incorrectLines == split(trim(cardData.incorrectAnswers), <<"\n">>)
        correct   == [n \in 1..Len(correctLines) |-> <<"=">> \o trim(correctLines[n])]
        incorrect == [n \in 1..Len(incorrectLines) |-> trim(incorrectLines[n])]
    IN  SelectSeq(correct \o incorrect, LAMBDA line : line # <<>>)

\* The switch of lines 764-777.
CardBody(cardData) ==
    IF cardData.cardType = TypeMC
    THEN cardData.question \o <<"\n">> \o join(ChoiceLines(cardData), <<"\n">>)
    ELSE IF cardData.cardType = TypeFITB THEN cardData.fitbText
    ELSE cardData.question \o <<"\n", "=", "=", "=">> \o cardData.qaAnswer

\* cardString, lines 756-778.
CardString(cardData) ==
    (IF Len(PropsOf(cardData)) > 0
     THEN <<"[">> \o join(PropsOf(cardData), <<" ">>) \o <<"]", "\n">> ELSE <<>>)
    \o CardBody(cardData)

\* The filter of line 754.
HasQuestionOrText(cardData) ==
    trim(cardData.question) # <<>> \/ trim(cardData.fitbText) # <<>>

buildDeckString(entries) ==
    LET kept == SelectSeq(entries, HasQuestionOrText)
    IN  join([n \in 1..Len(kept) |-> CardString(kept[n])],
             <<"\n", "-", "-", "-", "\n">>)

\* The entries explored: what the fields of the form of a card type, lines
\* 697-738, and the two colour fields, lines 741-746, can hold; the text
\* areas can hold several lines.
MaxFormCards == 2

FormColours == { <<<<>>, <<>>>>, <<<<"a">>, <<"b">>>>, <<<<"a", " ", "b">>, <<>>>> }

FormEntries ==
    { [EmptyCardData(TypeMC) EXCEPT !.question = q, !.correctAnswers = c,
                                    !.incorrectAnswers = i, !.bgColor = col[1],
                                    !.textColor = col[2]] :
        q \in {<<>>, <<"a">>}, c \in {<<>>, <<"a">>, <<"a", "\n", "b">>},
        i \in {<<>>, <<"b">>}, col \in FormColours }
    \cup
    { [EmptyCardData(TypeFITB) EXCEPT !.fitbText = t, !.bgColor = col[1],
                                      !.textColor = col[2]] :
        t \in {<<>>, <<"a", "{", "{", "b", "}", "}">>}, col \in FormColours }
    \cup
    { [EmptyCardData(TypeQA) EXCEPT !.question = q, !.qaAnswer = a, !.bgColor = col[1],
                                    !.textColor = col[2]] :
        q \in {<<>>, <<"a">>}, a \in {<<>>, <<"a">>, <<"a", "\n", "b">>},
        col \in FormColours }

FormCards == UNION { [1..n -> FormEntries] : n \in 1..MaxFormCards }

\* The modal is open with its entries filled in.
BuildInit ==
    /\ mcBody = NoMcBody
    /\ previousFirst = NoCard
    /\ cards \in FormCards
    /\ source = <<>>
    /\ blockResults = <<>>
    /\ keydownRegistered = FALSE
    /\ allCards = Undefined
    /\ cardsToRender = Undefined
    /\ currentCardIndex = Undefined
    /\ stats = Undefined
    /\ answeredCardIndexes = Undefined
    /\ settings = [key \in SettingKeys |-> FALSE]
    /\ view = "blank"
    /\ hasAnswered = FALSE
    /\ score = NoScore
    /\ timers = EmptyBag
    /\ lastEvent = "modal"

\* "Finish & insert deck", main.ts 666-675 and 128-131: a deck string that
\* is not empty becomes the text of a flashy block, which the processor of
\* line 145 is called with; an empty one only closes the modal.
FinishAndInsertDeck ==
    /\ lastEvent = "modal"
    /\ IF buildDeckString(cards) # <<>>
       THEN /\ source' = buildDeckString(cards)
            /\ lastEvent' = "called"
       ELSE /\ source' = source
            /\ lastEvent' = "closed"
    /\ UNCHANGED <<mcBody, previousFirst, cards, blockResults, keydownRegistered, allCards, cardsToRender,
                   currentCardIndex, stats, answeredCardIndexes, settings, view,
                   hasAnswered, score, timers>>

BuildNext ==
    \/ FinishAndInsertDeck
    \/ ParseAllCards

BuildSpec == BuildInit /\ [][BuildNext]_vars

----------------------------------------------------------------------------
(* A later call of the processor with the same text, main.ts 145-152 *)

\* The lines of the texts that are parsed twice: a correct choice, a QA
\* separator, a fill-in-the-blank line, a delimiter and a card-scope
\* property line; each of the last three is a question line as well.
ReparseLines ==
    { <<"=", "a">>,
      <<"=", "=", "=", "a">>,
      <<"a", "{", "{", "b", "}", "}", "a">>,
      <<"-", "-", "-">>,
      <<"[", "b", "g", "=", "a", "]">> }

ReparseSources ==
    { join(pieces, <<"\n">>) :
        pieces \in UNION { [1..n -> ReparseLines] : n \in 0..MaxLines } }

ReparseInit ==
    /\ mcBody = NoMcBody
    /\ previousFirst = NoCard
    /\ cards = <<>>
    /\ source \in ReparseSources
    /\ blockResults = <<>>
    /\ keydownRegistered = FALSE
    /\ allCards = Undefined
    /\ cardsToRender = Undefined
    /\ currentCardIndex = Undefined
    /\ stats = Undefined
    /\ answeredCardIndexes = Undefined
    /\ settings = [key \in SettingKeys |-> FALSE]
    /\ view = "blank"
    /\ hasAnswered = FALSE
    /\ score = NoScore
    /\ timers = EmptyBag
    /\ lastEvent = "called"

\* Obsidian renders the block again and calls the processor with the text
\* it was called with before: parseAllCards(source) of line 152 in the new
\* call, whatever the settings are by then and whether the earlier call has
\* started a session or not.
ParseAgain ==
    /\ lastEvent \in {"parseAllCards", "init"}
    /\ allCards' = parseAllCards(source)
    /\ blockResults' = MappedBlocks(source)
    /\ lastEvent' = "parseAgain"
    /\ UNCHANGED <<mcBody, previousFirst, cards, source, keydownRegistered, cardsToRender, currentCardIndex, stats,
                   answeredCardIndexes, settings, view, hasAnswered, score, timers>>

ReparseNext ==
    \/ ParseAllCards
    \/ StartSession
    \/ ParseAgain
    \/ \E key \in SettingKeys : ToggleSetting(key)

ReparseSpec == ReparseInit /\ [][ReparseNext]_vars

----------------------------------------------------------------------------
(* initializeDeck step by step, main.ts 170-189: the do-while of lines     *)
(* 180-182 one shuffle at a time, each shuffle with the values that        *)
(* Math.random gives to j.                                                 *)

\* Largest array that fisherYatesShuffle is applied to draw by draw.
MaxShuffled == 4

\* Draws in which every j is taken from the whole array, 0..n-1.
DrawsAnyIndex(n) == [1..(n - 1) -> 0..(n - 1)]

\* The draws of one call on an array of length n: draws[i] is
\* Math.floor(Math.random() * (i + 1)) of the iteration with index i, one of
\* 0..i, line 163. Math.random is taken to be uniform, so every member of
\* Draws(n) is as likely as any other.
Draws(n) == { draws \in [1..(n - 1) -> 0..(n - 1)] : \A i \in 1..(n - 1) : draws[i] <= i }

\* The loop of lines 162-165 from the iteration with index i on.
RECURSIVE ShuffleLoop(_, _, _)
ShuffleLoop(arr, draws, i) ==
    IF i <= 0 THEN arr
    ELSE ShuffleLoop(Swap(arr, i + 1, draws[i] + 1), draws, i - 1)

\* What fisherYatesShuffle(array) returns when Math.random gives draws.
ShuffleWith(array, draws) == ShuffleLoop(array, draws, Len(array) - 1)

\* The orders of the elements of an array.
OrdersOf(array) ==
    { [i \in 1..Len(array) |-> array[f[i]]] :
        f \in { g \in [1..Len(array) -> 1..Len(array)] :
                  \A a, b \in 1..Len(array) : a # b => g[a] # g[b] } }

\* The decks initializeDeck is stepped through with: distinct card objects.
ShuffleInputs == { [i \in 1..n |-> i] : n \in 1..MaxShuffled }

\* cardsToRender before the first call of initializeDeck(): declared without
\* a value, line 151. Its first card reads as undefined, as NoCard, like
\* that of an array without elements.
NoOrder == <<>>

\* The loop leaves after one shuffle, whatever the first card.
SameFirstCardIgnored == FALSE

\* The loop goes on, line 182.
SameFirstCard == previousFirst # NoCard /\ cardsToRender[1] = previousFirst

\* The position, the counters and the members of the answered set that
\* initializeDeck() finds: declared without a value at lines 148-150 or left
\* by the session before, and overwritten unread in both cases. A number, so
\* that a step compares values of one kind.
Unset == -1

\* initializeDeck() is called: the first time, with no order in
\* cardsToRender, or for a reset, with cardsToRender an order of the deck.
ShuffleInit ==
    /\ mcBody = NoMcBody
    /\ previousFirst = NoCard
    /\ cards = <<>>
    /\ source = TextRead
    /\ blockResults = <<>>
    /\ keydownRegistered = FALSE
    /\ allCards \in ShuffleInputs
    /\ cardsToRender \in {NoOrder} \cup OrdersOf(allCards)
    /\ currentCardIndex = Unset
    /\ stats = [correct |-> Unset, incorrect |-> Unset, answered |-> Unset]
    /\ answeredCardIndexes = {Unset}
    /\ settings \in { s \in SettingsValues : ~s.autoAdvance /\ ~s.autoAdvanceIncorrect }
    /\ view = "blank"
    /\ hasAnswered = FALSE
    /\ score = NoScore
    /\ timers = EmptyBag
    /\ lastEvent = "called"

\* Lines 172-176.
ResetStats ==
    /\ lastEvent = "called"
    /\ previousFirst' = IF cardsToRender = NoOrder THEN NoCard ELSE cardsToRender[1]
    /\ stats' = FreshStats
    /\ answeredCardIndexes' = {}
    /\ lastEvent' = "resetStats"
    /\ UNCHANGED <<mcBody, cards, source, blockResults, keydownRegistered, allCards, cardsToRender,
                   currentCardIndex, settings, view, hasAnswered, score, timers>>

\* One pass of the body of the do-while, line 181.
ShuffleOnce ==
    /\ settings.shuffleCards /\ Len(allCards) > 1
    /\ lastEvent = "resetStats" \/ (lastEvent = "shuffled" /\ SameFirstCard)
    /\ \E draws \in Draws(Len(allCards)) : cardsToRender' = ShuffleWith(allCards, draws)
    /\ lastEvent' = "shuffled"
    /\ UNCHANGED <<mcBody, previousFirst, cards, source, blockResults, keydownRegistered, allCards,
                   currentCardIndex, stats, answeredCardIndexes, settings, view,
                   hasAnswered, score, timers>>

\* Line 184.
CopyDeck ==
    /\ ~(settings.shuffleCards /\ Len(allCards) > 1)
    /\ lastEvent = "resetStats"
    /\ cardsToRender' = allCards
    /\ lastEvent' = "copied"
    /\ UNCHANGED <<mcBody, previousFirst, cards, source, blockResults, keydownRegistered, allCards,
                   currentCardIndex, stats, answeredCardIndexes, settings, view,
                   hasAnswered, score, timers>>

\* The loop is left, line 182, or the deck is copied; line 188.
StartAtBeginning ==
    /\ lastEvent = "copied" \/ (lastEvent = "shuffled" /\ ~SameFirstCard)
    /\ currentCardIndex' = 0
    /\ lastEvent' = "initialized"
    /\ UNCHANGED <<mcBody, previousFirst, cards, source, blockResults, keydownRegistered, allCards,
                   cardsToRender, stats, answeredCardIndexes, settings, view, hasAnswered,
                   score, timers>>

ShuffleNext ==
    \/ ResetStats
    \/ ShuffleOnce
    \/ CopyDeck
    \/ StartAtBeginning

ShuffleSpec == ShuffleInit /\ [][ShuffleNext]_vars

\* The variables of which a step of initializeDeck() changes one, unless it
\* is a shuffle that gives the order cardsToRender holds already.
shuffleVars == <<previousFirst, cardsToRender, lastEvent>>

\* A step is taken as long as one is possible, and of the shuffles that
\* Math.random can give again and again, one whose first card is not the
\* previous first card is given at some time.
FairShuffleSpec ==
    /\ ShuffleSpec
    /\ WF_shuffleVars(ShuffleNext)
    /\ SF_shuffleVars(ShuffleOnce /\ cardsToRender'[1] # previousFirst)

----------------------------------------------------------------------------
(* renderMultipleChoiceBody, main.ts 346-386, and the digit keys of        *)
(* handleKeyDown, main.ts 220-226                                          *)

\* Largest number of choices of the multiple-choice card explored.
MaxChoices == 3

\* isCorrect of the buttons of a card: parseAllCards returns a
\* multiple-choice card only with a correct choice among its choices.
AnswersToShow ==
    { answers \in UNION { [1..n -> BOOLEAN] : n \in 1..MaxChoices } :
        \E n \in 1..Len(answers) : answers[n] }

\* totalCorrectAnswers, line 350.
totalCorrectAnswers == Cardinality({ n \in 1..Len(mcBody.answersToShow) : mcBody.answersToShow[n] })

allButtons == 1..Len(mcBody.answersToShow)

\* Any correct answer is taken for the last one.
AnyCorrectFound(found) == found >= 1

\* foundCorrectAnswers === totalCorrectAnswers, line 366.
AllCorrectFound(found) == found = totalCorrectAnswers

\* if (!hasAnswered) { onGraded(correct); hasAnswered = true; }, lines
\* 369-372 and 379-382.
gradeOnce(isCorrect) ==
    IF ~hasAnswered
    THEN onGraded(isCorrect) /\ hasAnswered' = TRUE
    ELSE UNCHANGED <<hasAnswered, answeredCardIndexes, stats, timers>>

\* The click listener of button n, lines 361-384.
clickAnswer(n) ==
    IF mcBody.answersToShow[n]
    THEN IF AllCorrectFound(mcBody.foundCorrectAnswers + 1)
         THEN /\ mcBody' = [mcBody EXCEPT
                               !.disabled = allButtons,
                               !.foundCorrectAnswers = @ + 1,
                               !.clicks = Append(@, n),
                               !.graded = IF hasAnswered THEN @ ELSE Append(@, TRUE)]
              /\ gradeOnce(TRUE)
         ELSE /\ mcBody' = [mcBody EXCEPT
                               !.disabled = @ \cup {n},
                               !.foundCorrectAnswers = @ + 1,
                               !.clicks = Append(@, n)]
              /\ UNCHANGED <<hasAnswered, answeredCardIndexes, stats, timers>>
    ELSE /\ mcBody' = [mcBody EXCEPT
                          !.disabled = allButtons,
                          !.clicks = Append(@, n),
                          !.graded = IF hasAnswered THEN @ ELSE Append(@, FALSE)]
         /\ gradeOnce(FALSE)

\* renderCard(0) has rendered the multiple-choice card of a deck of one
\* card, in a session that has not graded it or that has graded it before.
ChoiceInit ==
    /\ mcBody \in { [NoMcBody EXCEPT !.answersToShow = answers] : answers \in AnswersToShow }
    /\ previousFirst = NoCard
    /\ cards = <<>>
    /\ source = TextRead
    /\ blockResults = <<>>
    /\ keydownRegistered = TRUE
    /\ allCards = <<1>>
    /\ cardsToRender = <<1>>
    /\ currentCardIndex = 0
    /\ answeredCardIndexes \in {{}, {0}}
    /\ stats = IF answeredCardIndexes = {} THEN FreshStats
               ELSE [correct |-> 1, incorrect |-> 0, answered |-> 1]
    /\ settings \in SettingsValues
    /\ view = "card"
    /\ hasAnswered = FALSE
    /\ score = NoScore
    /\ timers = EmptyBag
    /\ lastEvent = "renderCard"

\* A click on a button: the browser sends no click to a disabled button.
ClickAnswer(n) ==
    /\ view = "card"
    /\ n \in allButtons
    /\ n \notin mcBody.disabled
    /\ clickAnswer(n)
    /\ lastEvent' = "click"
    /\ UNCHANGED <<previousFirst, cards, source, blockResults, keydownRegistered, allCards,
                   cardsToRender, currentCardIndex, settings, view, score>>

\* A digit key that reaches handleKeyDown, lines 220-226: the button of the
\* digit is clicked when it exists and is not disabled.
KeyAnswer(num) ==
    /\ keydownRegistered
    /\ view = "card"
    /\ num \in 1..9
    /\ num \in allButtons
    /\ num \notin mcBody.disabled
    /\ clickAnswer(num)
    /\ lastEvent' = "digit"
    /\ UNCHANGED <<previousFirst, cards, source, blockResults, keydownRegistered, allCards,
                   cardsToRender, currentCardIndex, settings, view, score>>

ChoiceNext ==
    \/ \E n \in 1..MaxChoices : ClickAnswer(n)
    \/ \E num \in 1..9 : KeyAnswer(num)

ChoiceSpec == ChoiceInit /\ [][ChoiceNext]_vars

----------------------------------------------------------------------------
(* Properties of the session *)

LastIndex == Len(cardsToRender) - 1

ResetStep == KeyReset \/ ClickReset \/ ClickReviewAgain

AdvanceTimers(bag) == { t \in BagToSet(bag) : t.kind = "advance" }

AdvancePending(bag) == BagCardinality([t \in AdvanceTimers(bag) |-> bag[t]])

\* round(correct / total * 100): the integer n with n <= x + 1/2 < n + 1.
RoundedPercent(correct, total) ==
    CHOOSE n \in 0..100 :
        /\ 2 * n * total <= 200 * correct + total
        /\ 200 * correct + total < 2 * (n + 1) * total

\* C1: a call of onGraded while the current position is already in the
\* answered set changes neither stats nor the answered set and schedules no
\* timer, whatever isCorrect is.
C1_GradeIdempotent ==
    [][\A isCorrect \in BOOLEAN :
          (Grade(isCorrect) /\ currentCardIndex \in answeredCardIndexes)
             => UNCHANGED <<stats, answeredCardIndexes, timers>>]_vars

\* A card graded earlier in the session was rendered again and its widget
\* has just called onGraded.
C1_Witness ==
    /\ lastEvent = "gradeIgnored"
    /\ hasAnswered
    /\ currentCardIndex \in answeredCardIndexes
    /\ stats.answered >= 1

\* C2: the position is always an index of the render order.
C2_PositionInRange == currentCardIndex \in 0..LastIndex

\* C3: renderCard called with an index outside 0..length-1 (only the
\* auto-advance callback can do so) leaves the position as it was.
C3_OutOfRangeGoToIsNoOp ==
    [][\A t \in BagToSet(timers) :
          (FireAdvance(t) /\ currentCardIndex + 1 \notin 0..LastIndex)
             => currentCardIndex' = currentCardIndex]_vars

\* C4: the summary is shown only when every position of the render order
\* is in the answered set and stats.answered is the length of the order.
C4_CompleteOnlyWhenAllGraded ==
    view = "summary" =>
        /\ answeredCardIndexes = 0..LastIndex
        /\ stats.answered = Len(cardsToRender)

\* C5: the score shown when a completion timer fires is
\* round(correct / length * 100), correct being the number of correct
\* gradings of the session that scheduled the timer.
C5_ScoreOfTheGradings ==
    [][\A t \in BagToSet(timers) :
          FireSummary(t) => score' = RoundedPercent(t.correct, Len(cardsToRender))]_vars

\* C6: once the summary is shown it stays until a reset.
C6_CompleteIsTerminal ==
    [][(view = "summary" /\ ~ResetStep) => view' = "summary"]_vars

\* C7: a reset control exists whenever a card or the summary is shown, and
\* every reset, from whatever state, leaves the session reviewing position 0
\* with an empty answered set and zero stats.
C7_ResetReentersReviewing ==
    /\ [](view = "card" => ENABLED ClickReset)
    /\ [](view = "summary" => ENABLED ClickReviewAgain)
    /\ [][ResetStep =>
            /\ view' = "card"
            /\ currentCardIndex' = 0
            /\ answeredCardIndexes' = {}
            /\ stats' = [correct |-> 0, incorrect |-> 0, answered |-> 0]]_vars

\* The session was reset from the summary.
C7_Witness ==
    /\ lastEvent = "reviewAgain"
    /\ view = "card"
    /\ currentCardIndex = 0
    /\ answeredCardIndexes = {}
    /\ stats.answered = 0

\* C8: with shuffling on and more than one card, the first card after a
\* reset is not the first card before it.
C8_NoRepeatedFirstCard ==
    [][(ResetStep /\ settings.shuffleCards /\ Len(allCards) > 1)
          => cardsToRender'[1] # cardsToRender[1]]_vars

\* A reset has just shuffled a deck of more than one card.
C8_Witness ==
    /\ lastEvent \in {"reset", "reviewAgain"}
    /\ settings.shuffleCards
    /\ Len(allCards) > 1
    /\ cardsToRender # allCards

\* C9: the auto-advance callback goes to the position after the one whose
\* grade scheduled it.
C9_AdvanceTargetIsGradedPlusOne ==
    [][\A t \in BagToSet(timers) :
          FireAdvance(t) => currentCardIndex' = t.gradedAt + 1]_vars

\* C10: a first grade at a position schedules an auto-advance timer exactly
\* when the position is not the last one and the flag of its outcome is on.
C10_AdvanceScheduledIff ==
    [][\A isCorrect \in BOOLEAN :
          (Grade(isCorrect) /\ currentCardIndex \notin answeredCardIndexes) =>
             /\ AdvancePending(timers') \in {AdvancePending(timers), AdvancePending(timers) + 1}
             /\ (AdvancePending(timers') = AdvancePending(timers) + 1)
                  <=> /\ currentCardIndex < Len(cardsToRender) - 1
                      /\ \/ isCorrect /\ settings.autoAdvance
                         \/ ~isCorrect /\ settings.autoAdvanceIncorrect]_vars

\* The first grade of a session, an incorrect one, has just run, and an
\* auto-advance from its position is pending with only the
\* incorrect-outcome flag on.
C10_Witness ==
    /\ lastEvent = "grade"
    /\ hasAnswered
    /\ stats = [correct |-> 0, incorrect |-> 1, answered |-> 1]
    /\ ~settings.autoAdvance
    /\ settings.autoAdvanceIncorrect
    /\ timers = SetToBag({AdvanceTimer(currentCardIndex)})

SummaryTimers(bag) == { t \in BagToSet(bag) : t.kind = "summary" }

SummaryPending(bag) == BagCardinality([t \in SummaryTimers(bag) |-> bag[t]])

\* C11: a first grade at a position schedules one completion timer when it
\* brings stats.answered to the length of the render order, whatever the
\* two auto-advance flags are, and none when it leaves stats.answered below
\* the length.
C11_CompletionScheduledIff ==
    [][\A isCorrect \in BOOLEAN :
          (Grade(isCorrect) /\ currentCardIndex \notin answeredCardIndexes) =>
             /\ stats'.answered = Len(cardsToRender) =>
                   SummaryPending(timers') = SummaryPending(timers) + 1
             /\ stats'.answered < Len(cardsToRender) =>
                   SummaryPending(timers') = SummaryPending(timers)]_vars

\* The grade that completed a deck of two cards was given at position 0
\* with auto-advance on: an auto-advance and the completion are both
\* pending.
C11_Witness ==
    /\ lastEvent = "grade"
    /\ stats.answered = Len(cardsToRender)
    /\ settings.autoAdvance
    /\ settings.autoAdvanceIncorrect
    /\ AdvancePending(timers) = 1
    /\ SummaryPending(timers) = 1

NavigationStep ==
    \/ KeyPrevious
    \/ KeyNext
    \/ ClickPrevious
    \/ ClickNext
    \/ \E t \in BagToSet(timers) : FireAdvance(t)

\* C12: a navigation, by a key, a button or the auto-advance timer, leaves
\* the answered set, the three counters of stats and the render order as
\* they were.
C12_NavigationKeepsGradings ==
    [][NavigationStep =>
          /\ answeredCardIndexes' = answeredCardIndexes
          /\ stats'.correct = stats.correct
          /\ stats'.incorrect = stats.incorrect
          /\ stats'.answered = stats.answered
          /\ cardsToRender' = cardsToRender]_vars

\* A key or button navigation has moved the position of a session that has
\* gradings.
C12_Witness ==
    /\ lastEvent = "navigate"
    /\ currentCardIndex > 0
    /\ answeredCardIndexes # {}
    /\ stats.answered >= 1

IsPermutation(order, deck) ==
    /\ Len(order) = Len(deck)
    /\ \A k \in 1..Len(deck) : Cardinality({ i \in 1..Len(order) : order[i] = deck[k] }) = 1

\* C13: the render order always holds each card of the parsed deck exactly
\* once, and no step changes the parsed deck.
C13_RenderOrderPermutesDeck ==
    /\ [](IsPermutation(cardsToRender, allCards))
    /\ [][allCards' = allCards]_vars

\* A reset has shuffled the deck into an order other than the parsed one.
C13_Witness ==
    /\ lastEvent = "reset"
    /\ Len(allCards) > 1
    /\ cardsToRender # allCards
    /\ stats.answered = 0

----------------------------------------------------------------------------
(* Properties of parseAllCards *)

Parsed == lastEvent = "parseAllCards"

\* The non-blank lines of block i, without its card property line.
LinesOfBlock(i) == blockResults[i].lines

\* For each block of the text, its lines and what it yielded: a card or
\* Null.
BlockResults == { blockResults[i] : i \in 1..Len(blockResults) }

QaToken == <<"=", "=", "=">>

OpenToken == <<"{", "{">>

CloseToken == <<"}", "}">>

HasQaLine(lines) == \E k \in 1..Len(lines) : startsWith(trim(lines[k]), QaToken)

\* A field that is a string, the empty one when it was not assigned.
TextOf(field) == IF field = Undefined THEN <<>> ELSE field

\* C14: a block one of whose lines starts with === when trimmed yields a
\* QA card or no card, never a fill-in-the-blank or multiple-choice card.
C14_QaLineCommitsToQa ==
    Parsed =>
        \A b \in BlockResults :
            HasQaLine(b.lines) =>
                \/ b.card = Null
                \/ b.card.type = TypeQA

\* The text is one block of three lines: a first line with {{...}}, a line
\* that starts with a single =, a line that starts with ===; the deck is one
\* QA card.
C14_Witness ==
    /\ Parsed
    /\ Len(blockResults) = 1
    /\ Len(LinesOfBlock(1)) = 3
    /\ Occurrences(LinesOfBlock(1)[1], OpenToken) # {}
    /\ Occurrences(LinesOfBlock(1)[1], CloseToken) # {}
    /\ startsWith(LinesOfBlock(1)[2], <<"=">>)
    /\ ~startsWith(LinesOfBlock(1)[2], QaToken)
    /\ startsWith(LinesOfBlock(1)[3], QaToken)
    /\ Len(allCards) = 1
    /\ allCards[1].type = TypeQA

\* What a fill-in-the-blank card must be when its first line is read from
\* the {{ at position open to the }} at position close.
IsFitbOf(card, line, open, close) ==
    /\ card.type = TypeFITB
    /\ card.question = trim(SubSeq(line, 1, open - 1))
    /\ card.answer = trim(SubSeq(line, open + 2, close - 1))
    /\ TextOf(card.questionPartTwo) = trim(SubSeq(line, close + 2, Len(line)))

\* C15 as stated: the answer of a fill-in-the-blank card is the text between
\* the first {{ and the last }} of the first line, the prefix the text
\* before that {{, the suffix the text after that }}.
C15_FitbFirstOpenLastClose ==
    Parsed =>
        \A b \in BlockResults :
            b.card.type = TypeFITB =>
                IsFitbOf(b.card, b.lines[1],
                         Min(Occurrences(b.lines[1], OpenToken)),
                         Max(Occurrences(b.lines[1], CloseToken)))

\* The {{ of a line that have a }} after them.
ClosedOpens(line) ==
    { i \in Occurrences(line, OpenToken) :
        \E j \in Occurrences(line, CloseToken) : j >= i + 2 }

\* C15, amended: the answer of a fill-in-the-blank card is the text between
\* the last {{ that has a }} after it and the last }} of the first line, the
\* prefix the text before that {{, the suffix the text after that }}.
C15_FitbLastOpenLastClose ==
    Parsed =>
        \A b \in BlockResults :
            b.card.type = TypeFITB =>
                IsFitbOf(b.card, b.lines[1],
                         Max(ClosedOpens(b.lines[1])),
                         Max(Occurrences(b.lines[1], CloseToken)))

\* The text is one line with two {{ and one }}, a{{b{{a}}: the deck is one
\* fill-in-the-blank card with the prefix a{{b and the answer a.
C15_Witness ==
    /\ Parsed
    /\ Len(blockResults) = 1
    /\ Len(LinesOfBlock(1)) = 1
    /\ Cardinality(Occurrences(LinesOfBlock(1)[1], OpenToken)) = 2
    /\ Cardinality(Occurrences(LinesOfBlock(1)[1], CloseToken)) = 1
    /\ Len(allCards) = 1
    /\ allCards[1].type = TypeFITB
    /\ allCards[1].question = <<"a", "{", "{", "b">>
    /\ allCards[1].answer = <<"a">>

\* C16: every fill-in-the-blank card of the parsed deck has an answer that
\* is not empty after trimming.
C16_FitbAnswerNonEmpty ==
    Parsed =>
        \A k \in 1..Len(allCards) :
            allCards[k].type = TypeFITB => trim(allCards[k].answer) # <<>>

\* The lines are a question line without {{ and answer lines, none a ===
\* line: the block is left to the multiple-choice grammar.
IsChoiceBlock(lines) ==
    /\ Len(lines) >= 2
    /\ ~HasQaLine(lines)
    /\ Occurrences(lines[1], OpenToken) = {}

\* The answer lines that start with = when trimmed.
CorrectLines(lines) == { k \in 2..Len(lines) : startsWith(trim(lines[k]), <<"=">>) }

\* C17 as stated: every multiple-choice card of the parsed deck has at
\* least two choices.
C17_McAtLeastTwoChoices ==
    Parsed =>
        \A k \in 1..Len(allCards) :
            allCards[k].type = TypeMC => Len(allCards[k].answers) >= 2

\* C17, amended: every multiple-choice card of the parsed deck has at least
\* one choice, and a block of a question line and exactly one answer line,
\* which starts with =, yields a multiple-choice card with that one choice.
C17_McAtLeastOneChoice ==
    Parsed =>
        /\ \A k \in 1..Len(allCards) :
              allCards[k].type = TypeMC => Len(allCards[k].answers) >= 1
        /\ \A b \in BlockResults :
              (IsChoiceBlock(b.lines) /\ Len(b.lines) = 2
                  /\ CorrectLines(b.lines) = {2}) =>
                 /\ b.card.type = TypeMC
                 /\ Len(b.card.answers) = 1
                 /\ b.card.answers[1].isCorrect

\* The text is a question line and one answer line that starts with =: the
\* deck is one multiple-choice card with one choice.
C17_Witness ==
    /\ Parsed
    /\ Len(blockResults) = 1
    /\ IsChoiceBlock(LinesOfBlock(1))
    /\ Len(LinesOfBlock(1)) = 2
    /\ Len(allCards) = 1
    /\ allCards[1].type = TypeMC
    /\ Len(allCards[1].answers) = 1

\* C18: every multiple-choice card of the parsed deck has a choice with
\* isCorrect = TRUE, and a block left to the multiple-choice grammar none
\* of whose answer lines starts with = yields no card.
C18_McHasCorrectChoice ==
    Parsed =>
        /\ \A k \in 1..Len(allCards) :
              allCards[k].type = TypeMC =>
                 \E n \in 1..Len(allCards[k].answers) : allCards[k].answers[n].isCorrect
        /\ \A b \in BlockResults :
              (IsChoiceBlock(b.lines) /\ CorrectLines(b.lines) = {}) =>
                 b.card = Null

\* The text is one block of a question line and answer lines of which none
\* starts with =: the deck is empty.
C18_Witness ==
    /\ Parsed
    /\ Len(blockResults) = 1
    /\ IsChoiceBlock(LinesOfBlock(1))
    /\ Len(LinesOfBlock(1)) = 3
    /\ CorrectLines(LinesOfBlock(1)) = {}
    /\ allCards = <<>>

\* The position in lines of the first line that starts with === when
\* trimmed.
FirstQaLine(lines) ==
    CHOOSE k \in 1..Len(lines) :
        /\ startsWith(trim(lines[k]), QaToken)
        /\ \A n \in 1..(k - 1) : ~startsWith(trim(lines[n]), QaToken)

\* The question and the answer C19 gives a block with a === line.
QaQuestion(lines) == trim(join(SubSeq(lines, 1, FirstQaLine(lines) - 1), <<"\n">>))

QaAnswer(lines) == trim(SubSeq(trim(lines[FirstQaLine(lines)]), 4, Len(trim(lines[FirstQaLine(lines)]))))

\* C19: a block with a === line yields no card when the trimmed join of the
\* lines before the first === line or the trimmed rest of that line is
\* empty, and otherwise the QA card of these two texts; every QA card of the
\* parsed deck has a non-empty question and a non-empty answer.
C19_QaQuestionAndAnswer ==
    Parsed =>
        /\ \A b \in BlockResults :
              HasQaLine(b.lines) =>
                 IF QaQuestion(b.lines) = <<>> \/ QaAnswer(b.lines) = <<>>
                 THEN b.card = Null
                 ELSE /\ b.card.type = TypeQA
                      /\ b.card.question = QaQuestion(b.lines)
                      /\ b.card.answer = QaAnswer(b.lines)
        /\ \A k \in 1..Len(allCards) :
              allCards[k].type = TypeQA =>
                 allCards[k].question # <<>> /\ allCards[k].answer # <<>>

\* The text is one block of two lines and a === line after them: the deck
\* is one QA card whose question holds the newline between the two lines.
C19_Witness ==
    /\ Parsed
    /\ Len(blockResults) = 1
    /\ Len(LinesOfBlock(1)) = 3
    /\ HasQaLine(LinesOfBlock(1))
    /\ FirstQaLine(LinesOfBlock(1)) = 3
    /\ Len(allCards) = 1
    /\ allCards[1].type = TypeQA
    /\ Occurrences(allCards[1].question, <<"\n">>) # {}
    /\ allCards[1].answer # <<>>

\* The first line holds {{x}} for some non-empty text x.
HasNonEmptyBlank(line) ==
    \E i \in Occurrences(line, OpenToken) :
        \E j \in Occurrences(line, CloseToken) : j > i + 2

\* C20 as stated: a block without a === line whose first line holds {{x}}
\* with non-empty x yields a fill-in-the-blank card, whatever lines follow,
\* and a multiple-choice card comes only from a block whose first line
\* holds no such {{x}}.
C20_FitbBeforeMc ==
    Parsed =>
        \A b \in BlockResults :
            (b.lines # <<>> /\ ~HasQaLine(b.lines)) =>
                /\ HasNonEmptyBlank(b.lines[1]) => b.card.type = TypeFITB
                /\ b.card.type = TypeMC => ~HasNonEmptyBlank(b.lines[1])

\* The text between the last {{ of the line that has a }} after it and the
\* last }} of the line is not empty.
HasNonEmptyCapture(line) ==
    /\ ClosedOpens(line) # {}
    /\ Max(Occurrences(line, CloseToken)) > Max(ClosedOpens(line)) + 2

\* C20, amended: a block without a === line whose first line has a
\* non-empty text between its last {{ that has a }} after it and its last }}
\* yields the fill-in-the-blank card of that first line, whatever lines
\* follow, and a multiple-choice card comes only from a block whose first
\* line has no such text.
C20_FitbCaptureBeforeMc ==
    Parsed =>
        \A b \in BlockResults :
            (b.lines # <<>> /\ ~HasQaLine(b.lines)) =>
                /\ HasNonEmptyCapture(b.lines[1]) =>
                      IsFitbOf(b.card, b.lines[1],
                               Max(ClosedOpens(b.lines[1])),
                               Max(Occurrences(b.lines[1], CloseToken)))
                /\ b.card.type = TypeMC => ~HasNonEmptyCapture(b.lines[1])

\* The text is a first line with {{b}} and two lines after it, one of
\* which starts with =: the deck is one fill-in-the-blank card with the
\* answer b.
C20_Witness ==
    /\ Parsed
    /\ Len(blockResults) = 1
    /\ Len(LinesOfBlock(1)) = 3
    /\ ~HasQaLine(LinesOfBlock(1))
    /\ HasNonEmptyCapture(LinesOfBlock(1)[1])
    /\ CorrectLines(LinesOfBlock(1)) # {}
    /\ Len(allCards) = 1
    /\ allCards[1].type = TypeFITB
    /\ allCards[1].answer = <<"b">>

\* C21: a multiple-choice card has the trimmed first line of its block as
\* question and one choice for each further line, in the order of the lines:
\* a correct one with the trimmed text after the first = when the trimmed
\* line starts with =, an incorrect one with the trimmed line otherwise.
C21_McQuestionAndChoices ==
    Parsed =>
        \A b \in BlockResults :
            b.card.type = TypeMC =>
                /\ b.card.question = trim(b.lines[1])
                /\ Len(b.card.answers) = Len(b.lines) - 1
                /\ \A k \in 1..(Len(b.lines) - 1) :
                      IF trim(b.lines[k + 1])[1] = "="
                      THEN b.card.answers[k] =
                              [text |-> trim(Tail(trim(b.lines[k + 1]))), isCorrect |-> TRUE]
                      ELSE b.card.answers[k] =
                              [text |-> trim(b.lines[k + 1]), isCorrect |-> FALSE]

\* The text is a question line, the line " =b " and the line a: the deck is
\* one multiple-choice card with the correct choice b and then the incorrect
\* choice a.
C21_Witness ==
    /\ Parsed
    /\ Len(blockResults) = 1
    /\ Len(LinesOfBlock(1)) = 3
    /\ LinesOfBlock(1)[2] = <<" ", "=", "b", " ">>
    /\ Len(allCards) = 1
    /\ allCards[1].type = TypeMC
    /\ allCards[1].answers =
          << [text |-> <<"b">>, isCorrect |-> TRUE], [text |-> <<"a">>, isCorrect |-> FALSE] >>

\* The value of a key for a card: the one of the card's own property line
\* when that line set the key, otherwise the one of the [[...]] line,
\* Undefined when that line did not set it either.
ResolvedProperty(cardValue, blockValue) ==
    IF cardValue # Undefined THEN cardValue ELSE blockValue

\* C22: for every card, and for bg and color each on its own, the value is
\* the card-scope one if the card's property line set the key, otherwise the
\* block-scope one if the [[...]] line set it, otherwise unset.
C22_CardScopeBeforeBlockScope ==
    Parsed =>
        \A b \in BlockResults :
            b.card # Null =>
                /\ b.card.customBackgroundColor =
                      ResolvedProperty(b.properties.bg, globalProperties(trim(source)).bg)
                /\ b.card.customTextColor =
                      ResolvedProperty(b.properties.color, globalProperties(trim(source)).color)

\* The text is [[bg=b color=b]], [bg=a] and a card: the card has the bg of
\* its own line and the color of the [[...]] line.
C22_Witness ==
    /\ Parsed
    /\ globalProperties(trim(source)) = [bg |-> <<"b">>, color |-> <<"b">>]
    /\ Len(blockResults) = 1
    /\ blockResults[1].properties = [bg |-> <<"a">>, color |-> Undefined]
    /\ Len(allCards) = 1
    /\ allCards[1].customBackgroundColor = <<"a">>
    /\ allCards[1].customTextColor = <<"b">>

DelimiterLine == <<"-", "-", "-">>

\* The lines of the text after the removal of the [[...]] line.
ContentLines == split(ContentAfterGlobalProperties(trim(source)), <<"\n">>)

\* The lines that are exactly --- and have a line before and a line after
\* them.
DelimiterLines(lines) == { k \in 2..(Len(lines) - 1) : lines[k] = DelimiterLine }

\* The position of the i-th delimiter line, 0 for i = 0 and the position
\* after the last line for the one after the last delimiter line.
DelimiterAt(lines, i) ==
    IF i = 0 THEN 0
    ELSE IF i > Cardinality(DelimiterLines(lines)) THEN Len(lines) + 1
    ELSE CHOOSE k \in DelimiterLines(lines) :
            Cardinality({ m \in DelimiterLines(lines) : m < k }) = i - 1

\* The text between the delimiter lines i - 1 and i.
DelimitedBlock(lines, i) ==
    join(SubSeq(lines, DelimiterAt(lines, i - 1) + 1, DelimiterAt(lines, i) - 1), <<"\n">>)

\* C23: every line that is exactly --- and has a line before and a line
\* after it ends a block, adjacent ones too: the blocks handed to the
\* resolver are the texts between these lines, so none holds such a line.
C23_EveryDelimiterLineSplits ==
    Parsed =>
        /\ Len(blockResults) = Cardinality(DelimiterLines(ContentLines)) + 1
        /\ \A i \in 1..Len(blockResults) :
              blockResults[i].block = DelimitedBlock(ContentLines, i)

\* The card invariants of a card: a non-empty answer after trimming for
\* fill-in-the-blank, a non-empty question and answer for QA, a correct
\* choice for multiple-choice.
CardInvariant(card) ==
    /\ card.type = TypeFITB => trim(card.answer) # <<>>
    /\ card.type = TypeQA => trim(card.question) # <<>> /\ trim(card.answer) # <<>>
    /\ card.type = TypeMC => \E n \in 1..Len(card.answers) : card.answers[n].isCorrect

\* C24: the deck is the sequence, in the order of the text, of the cards
\* of the delimiter-separated blocks, each parsed by itself, without the
\* blocks that yield no card; and a block that fails a card invariant
\* yields no card.
C24_DeckOfIndependentBlocks ==
    Parsed =>
        /\ allCards =
              SelectSeq([i \in 1..(Cardinality(DelimiterLines(ContentLines)) + 1) |->
                            ParseBlock(DelimitedBlock(ContentLines, i),
                                       globalProperties(trim(source)))],
                        LAMBDA card : card # Null)
        /\ \A k \in 1..Len(allCards) : CardInvariant(allCards[k])

\* A step of a session: a grading, a key, a button or a timer.
SessionStep ==
    \/ \E isCorrect \in BOOLEAN : Grade(isCorrect)
    \/ KeyPrevious
    \/ KeyNext
    \/ KeyReset
    \/ ClickPrevious
    \/ ClickNext
    \/ ClickReset
    \/ ClickReviewAgain
    \/ \E t \in BagToSet(timers) : FireAdvance(t)
    \/ \E t \in BagToSet(timers) : FireSummary(t)

\* C25: a deck without cards is reported, once, and no session exists
\* after the report: position, statistics, render order and graded set are
\* not initialised, no key handler is registered, no timer is pending and
\* no step of a session can be taken. A deck with cards is never reported.
C25_EmptyDeckReportedWithoutSession ==
    /\ (Parsed /\ Len(allCards) = 0) => (ENABLED ReportEmptyDeck /\ ~ENABLED StartSession)
    /\ (Parsed /\ Len(allCards) # 0) => ~ENABLED ReportEmptyDeck
    /\ view = "error" <=> lastEvent = "emptyDeck"
    /\ lastEvent = "emptyDeck" =>
          /\ Len(allCards) = 0
          /\ currentCardIndex = Undefined
          /\ stats = Undefined
          /\ cardsToRender = Undefined
          /\ answeredCardIndexes = Undefined
          /\ ~keydownRegistered
          /\ timers = EmptyBag
          /\ ~ENABLED ReportEmptyDeck
          /\ ~ENABLED StartSession
          /\ ~ENABLED SessionStep
    /\ lastEvent = "init" => (Len(allCards) # 0 /\ view # "error")

C25_Witness ==
    /\ lastEvent = "emptyDeck"
    /\ source = <<"=", "a">>
    /\ allCards = <<>>
    /\ view = "error"
    /\ ~keydownRegistered

\* An entry of the form that describes a card: a question and a correct
\* answer for multiple-choice, a text with a blank for fill-in-the-blank, a
\* question and an answer for QA.
DescribesCard(cardData) ==
    IF cardData.cardType = TypeMC
    THEN cardData.question # <<>> /\ cardData.correctAnswers # <<>>
    ELSE IF cardData.cardType = TypeFITB THEN cardData.fitbText # <<>>
    ELSE cardData.question # <<>> /\ cardData.qaAnswer # <<>>

\* The choices of an entry: its correct answers, one per line, then its
\* incorrect ones.
ChoicesOf(cardData) ==
    LET correct   == IF cardData.correctAnswers = <<>> THEN <<>>
                     ELSE split(cardData.correctAnswers, <<"\n">>)
        incorrect == IF cardData.incorrectAnswers = <<>> THEN <<>>
                     ELSE split(cardData.incorrectAnswers, <<"\n">>)
    IN  [n \in 1..Len(correct) |-> [text |-> correct[n], isCorrect |-> TRUE]]
        \o [n \in 1..Len(incorrect) |-> [text |-> incorrect[n], isCorrect |-> FALSE]]

ColourOf(value) == IF value = <<>> THEN Undefined ELSE value

\* The card has the type, the texts, the choices and the colours of the
\* entry.
SameCard(card, cardData) ==
    /\ card.type = cardData.cardType
    /\ card.customBackgroundColor = ColourOf(cardData.bgColor)
    /\ card.customTextColor = ColourOf(cardData.textColor)
    /\ card.type = TypeMC =>
          card.question = cardData.question /\ card.answers = ChoicesOf(cardData)
    /\ card.type = TypeFITB =>
          card.question \o <<"{", "{">> \o card.answer \o <<"}", "}">>
              \o (IF card.questionPartTwo = Undefined THEN <<>> ELSE card.questionPartTwo)
          = cardData.fitbText
    /\ card.type = TypeQA =>
          card.question = cardData.question /\ card.answer = cardData.qaAnswer

\* C26: the deck parsed from the text that buildDeckString makes of the
\* entries of the form has, entry by entry, the type, question, answer,
\* choices and colours of the entries; stated for the lists whose entries
\* all describe a card.
C26_RoundTrip ==
    (Parsed /\ \A n \in 1..Len(cards) : DescribesCard(cards[n])) =>
        /\ Len(allCards) = Len(cards)
        /\ \A n \in 1..Len(cards) : SameCard(allCards[n], cards[n])

\* The tokens of a property line: its texts between white space.
TokensOf(propLine) == splitWhitespace(trim(propLine))

\* A token key=value with a value that is not empty.
IsWellFormed(token, key) ==
    /\ startsWith(token, key \o <<"=">>)
    /\ Len(token) > Len(key) + 1
    /\ token[Len(key) + 2] # "="

\* The value the tokens give to a key: the one of its last well-formed
\* token, up to a further `=`, when there is one.
AppliedValue(tokens, key) ==
    LET wellFormed == { n \in 1..Len(tokens) : IsWellFormed(tokens[n], key) }
    IN  IF wellFormed = {} THEN Undefined
        ELSE split(substring(tokens[Max(wellFormed)], Len(key) + 1), <<"=">>)[1]

AppliesWellFormedTokens(properties, tokens) ==
    /\ DOMAIN properties = {"bg", "color"}
    /\ properties.bg = AppliedValue(tokens, <<"b", "g">>)
    /\ properties.color = AppliedValue(tokens, <<"c", "o", "l", "o", "r">>)

\* C27: on a property line of either scope a token without `=`, one with an
\* empty value and one with an unknown key are passed over one by one: bg
\* and color have the values of the well-formed bg= and color= tokens of the
\* line, and the mapping has no other key.
C27_MalformedTokensIgnored ==
    Parsed =>
        /\ HasGlobalPropMatch(trim(source)) =>
              AppliesWellFormedTokens(globalProperties(trim(source)),
                                      TokensOf(GlobalPropGroup(trim(source))))
        /\ \A b \in BlockResults :
              HasCardPropertyLine(BlockLines(b.block)) =>
                  AppliesWellFormedTokens(
                      b.properties,
                      TokensOf(SubSeq(BlockLines(b.block)[1], 2,
                                      Len(BlockLines(b.block)[1]) - 1)))

C27_Witness ==
    /\ Parsed
    /\ source = <<"[", " ", "c", "o", "l", "o", "r", "=", " ", " ", "b", "g", "=", "a",
                  " ", "]", "\n", "a", "{", "{", "b", "}", "}", "a">>
    /\ blockResults[1].properties = [bg |-> <<"a">>, color |-> Undefined]
    /\ allCards[1].customBackgroundColor = <<"a">>
    /\ allCards[1].customTextColor = Undefined

CardFields ==
    {"type", "question", "questionPartTwo", "answer", "answers",
     "customBackgroundColor", "customTextColor"}

\* A card of one of the three types.
IsFlashcard(card) ==
    /\ DOMAIN card = CardFields
    /\ card.type \in {TypeQA, TypeFITB, TypeMC}

\* C28: parseAllCards returns a deck, which may be empty, for every text,
\* the empty one, a blank one and one that matches no grammar too: what
\* the call returns is a sequence of cards, at most one per block, and
\* every step of the parser has a value (the evaluation of ParseAllCards
\* fails on no text).
C28_ParseAllCardsTotal ==
    Parsed =>
        /\ DOMAIN allCards = 1..Len(allCards)
        /\ Len(blockResults) >= 1
        /\ Len(allCards) <= Len(blockResults)
        /\ \A k \in 1..Len(allCards) : IsFlashcard(allCards[k])

C28_Witness ==
    /\ Parsed
    /\ source = <<" ", "\n", "=", "=", "=", "a">>
    /\ allCards = <<>>

C30_CompleteAtOnce ==
    (lastEvent = "grade" /\ Len(cardsToRender) = 1 /\ stats.correct = 1) =>
        (view = "summary" /\ score = 100)

\* C30, amended: after that grade the card is still shown and a completion
\* timer is pending; the summary with the score 100 is what the timer
\* renders when it fires with the statistics of the grade.
C30_CompleteAfterDelay ==
    /\ (lastEvent = "grade" /\ Len(cardsToRender) = 1 /\ stats.correct = 1) =>
          (view = "card" /\ score = NoScore /\ SummaryPending(timers) >= 1)
    /\ (lastEvent = "fireSummary" /\ Len(cardsToRender) = 1 /\ stats.correct = 1) =>
          (view = "summary" /\ score = 100)

C30_Witness ==
    /\ lastEvent = "fireSummary"
    /\ Len(cardsToRender) = 1
    /\ stats = [correct |-> 1, incorrect |-> 0, answered |-> 1]
    /\ view = "summary"
    /\ score = 100
    /\ timers = EmptyBag

\* C31: the advance timer and the completion timer of one grade fire
\* independently, in either order, and the one that fires last decides
\* what is shown: a completion timer always renders the summary, an advance
\* timer that finds the position of its grade always renders the card after
\* it, the summary shown or not, and a timer that fires takes only itself
\* from the pending timers.
C31_LastTimerWins ==
    [][\A t \in BagToSet(timers) :
          /\ FireSummary(t) =>
                (view' = "summary" /\ timers' = timers (-) SetToBag({t}))
          /\ (FireAdvance(t) /\ currentCardIndex = t.gradedAt) =>
                /\ view' = "card"
                /\ currentCardIndex' = t.gradedAt + 1
                /\ timers' = timers (-) SetToBag({t})]_vars

\* Two cards, both graded as correct with auto-advance on: the advance
\* timer has fired after the completion timer and nothing is pending.
C31_Witness ==
    /\ lastEvent = "fireAdvance"
    /\ settings.autoAdvance
    /\ stats.correct = 2
    /\ Len(cardsToRender) = 2
    /\ stats.answered = 2
    /\ answeredCardIndexes = {0, 1}
    /\ timers = EmptyBag
    /\ view = "card"
    /\ currentCardIndex = 1

----------------------------------------------------------------------------
(* Properties of initializeDeck and fisherYatesShuffle, step by step *)

\* The draws with which fisherYatesShuffle(array) returns the order.
DrawsGiving(array, order) ==
    { draws \in Draws(Len(array)) : ShuffleWith(array, draws) = order }

\* C32: fisherYatesShuffle is unbiased: the draws of Math.random being
\* equally likely, there are as many of them as orders of the n distinct
\* elements, every order is returned, nothing but an order is returned, and
\* the order that was returned is the one of exactly one draw; so each order
\* has one draw of n!.
C32_ShuffleUnbiased ==
    lastEvent = "shuffled" =>
        /\ cardsToRender \in OrdersOf(allCards)
        /\ fisherYatesShuffle(allCards) = OrdersOf(allCards)
        /\ Cardinality(Draws(Len(allCards))) = Cardinality(OrdersOf(allCards))
        /\ Cardinality(DrawsGiving(allCards, cardsToRender)) = 1

C32_Witness ==
    /\ lastEvent = "shuffled"
    /\ allCards = <<1, 2, 3>>
    /\ cardsToRender = <<3, 1, 2>>
    /\ DrawsGiving(allCards, cardsToRender) = {<<0, 1>>}

----------------------------------------------------------------------------
(* Further properties of the session *)

\* C33: in every state of a session stats.answered is the size of the
\* answered set and the sum of stats.correct and stats.incorrect, it is at
\* most the length of the render order, and the answered set holds only
\* indexes of the render order (whose length never changes): a grade adds
\* the position of a card that is shown.
C33_StatsMatchAnsweredSet ==
    /\ [](/\ stats.answered = Cardinality(answeredCardIndexes)
          /\ stats.answered = stats.correct + stats.incorrect
          /\ stats.answered <= Len(cardsToRender)
          /\ answeredCardIndexes \subseteq 0..(Len(cardsToRender) - 1))
    /\ [][/\ Len(cardsToRender') = Len(cardsToRender)
          /\ \A i \in answeredCardIndexes' \ answeredCardIndexes :
                i = currentCardIndex /\ i \in 0..(Len(cardsToRender) - 1)]_vars

C33_Witness ==
    /\ lastEvent = "grade"
    /\ answeredCardIndexes = {0, 1}
    /\ stats = [correct |-> 1, incorrect |-> 1, answered |-> 2]
    /\ Len(cardsToRender) = 2

\* C34: right after a reset every pending timer is one that a grade before
\* the reset has scheduled; when such a timer fires, the position stays 0,
\* the card stays shown and the statistics stay zero.
C34_StaleTimersLeaveNewSession ==
    [][(/\ lastEvent \in {"reset", "reviewAgain"}
        /\ \E t \in BagToSet(timers) : FireAdvance(t) \/ FireSummary(t))
          => /\ currentCardIndex' = 0
             /\ view' = "card"
             /\ stats' = FreshStats]_vars

----------------------------------------------------------------------------
(* Properties of the multiple-choice body                                  *)

CorrectButtons == { n \in allButtons : mcBody.answersToShow[n] }

\* The positions in the history of clicks of the clicks on incorrect choices.
IncorrectClicks == { k \in 1..Len(mcBody.clicks) : ~mcBody.answersToShow[mcBody.clicks[k]] }

\* Every correct choice has been clicked, and before any incorrect choice.
AllCorrectClickedFirst ==
    \A n \in CorrectButtons :
        \E k \in 1..Len(mcBody.clicks) :
            /\ mcBody.clicks[k] = n
            /\ \A j \in IncorrectClicks : k < j

\* C35: for one rendering of a multiple-choice card, whatever the clicks on
\* its choices, by mouse or by digit key, onGraded is called at most once;
\* it has been called with true exactly when every correct choice has been
\* clicked before any incorrect choice, and with false exactly when an
\* incorrect choice has been clicked, at that click, which is the last click
\* of the rendering because every button is disabled from then on.
C35_GradedAtMostOnce ==
    /\ Len(mcBody.graded) <= 1
    /\ hasAnswered <=> Len(mcBody.graded) = 1
    /\ mcBody.graded = <<TRUE>> <=> AllCorrectClickedFirst
    /\ mcBody.graded = <<FALSE>> <=> IncorrectClicks # {}
    /\ IncorrectClicks \subseteq {Len(mcBody.clicks)}
    /\ IncorrectClicks # {} => mcBody.disabled = allButtons
    /\ mcBody.graded # <<>> => mcBody.disabled = allButtons

C35_Witness ==
    /\ mcBody.answersToShow = <<TRUE, FALSE, TRUE>>
    /\ mcBody.clicks = <<3, 1>>
    /\ mcBody.graded = <<TRUE>>
    /\ mcBody.disabled = {1, 2, 3}
    /\ lastEvent = "digit"
    /\ stats = [correct |-> 1, incorrect |-> 0, answered |-> 1]

----------------------------------------------------------------------------
(* Navigation by the user, the render order of a deck that is not shuffled *)

PositionInRange == currentCardIndex \in 0..(Len(cardsToRender) - 1)

\* C36: navigation by the user never leaves the valid range: from a state
\* with 0 <= position < length, the previous key or button moves to
\* position - 1 only if position > 0 and the next key or button moves to
\* position + 1 only if position < length - 1; otherwise the position is
\* unchanged, and the position after the step is in range again.
C36_UserNavigationStaysInRange ==
    [][PositionInRange =>
          /\ (KeyPrevious \/ ClickPrevious) =>
                currentCardIndex' = IF currentCardIndex > 0
                                    THEN currentCardIndex - 1
                                    ELSE currentCardIndex
          /\ (KeyNext \/ ClickNext) =>
                currentCardIndex' = IF currentCardIndex < Len(cardsToRender) - 1
                                    THEN currentCardIndex + 1
                                    ELSE currentCardIndex
          /\ (KeyPrevious \/ ClickPrevious \/ KeyNext \/ ClickNext) =>
                currentCardIndex' \in 0..(Len(cardsToRender') - 1)]_vars

\* A next key or button has moved the position to the last card.
C36_Witness ==
    /\ lastEvent = "navigate"
    /\ Len(cardsToRender) = 2
    /\ currentCardIndex = 1
    /\ view = "card"
    /\ ~hasAnswered
    /\ timers = EmptyBag

NotShuffled == ~settings.shuffleCards \/ Len(allCards) = 1

\* C37: with shuffling disabled, or with a deck of exactly one card, the
\* render order after the initial construction and after every reset is
\* exactly the order of the parsed deck.
C37_UnshuffledOrderIsDeckOrder ==
    /\ NotShuffled => cardsToRender = allCards
    /\ [][(ResetStep /\ NotShuffled) => cardsToRender' = allCards]_vars

\* A reset with shuffling disabled has put a deck of two different cards
\* in its parsed order.
C37_Witness ==
    /\ lastEvent = "reset"
    /\ ~settings.shuffleCards
    /\ Len(allCards) = 2
    /\ allCards[1] # allCards[2]
    /\ cardsToRender = allCards
    /\ stats = FreshStats
    /\ currentCardIndex = 0

----------------------------------------------------------------------------
(* Termination of initializeDeck                                           *)

Rerolls == settings.shuffleCards /\ Len(allCards) > 1

\* C38: a reset always terminates: with shuffling enabled and more than one
\* card, and every outcome of the shuffle that is possible again and again
\* eventually drawn, the loop of lines 180-182 ends, with a render order
\* whose first card differs from the previous first card; on the first
\* initialisation, with no previous first card, the deck is shuffled
\* exactly once: a shuffle follows the reset of the stats and none follows
\* a shuffle.
C38_ResetTerminates ==
    /\ (lastEvent = "called") ~> (lastEvent = "initialized")
    /\ (lastEvent = "resetStats" /\ Rerolls) ~> (lastEvent = "shuffled")
    /\ [](lastEvent = "initialized" /\ Rerolls /\ previousFirst # NoCard
            => cardsToRender[1] # previousFirst)
    /\ [](lastEvent = "shuffled" /\ previousFirst = NoCard
            => ~ENABLED ShuffleOnce /\ ENABLED StartAtBeginning)

\* A reset of a deck of three cards whose first card was card 1 has ended
\* with another first card.
C38_Witness ==
    /\ lastEvent = "initialized"
    /\ settings.shuffleCards
    /\ allCards = <<1, 2, 3>>
    /\ previousFirst = 1
    /\ cardsToRender = <<2, 3, 1>>
    /\ currentCardIndex = 0
    /\ stats = FreshStats

============================================================================
